---- MODULE Spec2Model ----
(***************************************************************************)
(* Model of fastembed/embedding.py: the artifact fetcher                   *)
(* (DefaultEmbedding.download_file_from_gcs), the archive cache            *)
(* (DefaultEmbedding.decompress_to_cache) and the construction of the      *)
(* embedding classes.                                                      *)
(*                                                                         *)
(* A path is a sequence of string tokens, cut so that the substrings the   *)
(* code tests for (".tar.gz", "tmp") are token sequences.  A file holds a  *)
(* sequence of data tokens; a directory holds a map from entry names to    *)
(* the content found under that name.                                      *)
(***************************************************************************)
EXTENDS Naturals, Sequences, FiniteSets

VARIABLES fs,      \* the file system: existing path -> node
          net,     \* number of HTTP GET requests issued so far
          calls,   \* number of operations performed so far
          last,    \* what the last operation was given and how it ended
          partial  \* history: destination -> body of the download that broke off

vars == <<fs, net, calls, last, partial>>

--------------------------------------------------------------------------
(* Bounds *)

MaxCalls == 3      \* operations per behaviour
MaxChunks == 2     \* chunks of a response body

--------------------------------------------------------------------------
(* Values of the program *)

None == <<>>       \* Python's None, where a path is expected

HTTP_OK == 200
HTTP_FORBIDDEN == 403

StatusCodes == {HTTP_OK, HTTP_FORBIDDEN, 404}

ArchiveURL == "https://storage.googleapis.com/qdrant-fastembed/fast-all-MiniLM-L6-v2.tar.gz"
ArchiveName == <<"fast-all-MiniLM-L6-v2", ".tar", ".gz">>
ZipName == <<"model", ".zip">>
TarName == <<"model", ".tar">>
PlainDir == <<"cache">>
TmpNamedDir == <<"my_", "tmp", "_cache">>

TarGzSuffix == <<".tar", ".gz">>
TmpMarker == <<"tmp">>

FilePaths == {ArchiveName, ZipName, TarName}
CallerDirs == {PlainDir, TmpNamedDir}

(* Data tokens: "G" the gzip/tar opening, "a" and "b" one complete archive *)
(* member each (stored under that relative path), "X" a damaged member     *)
(* header, "E" the end-of-archive marker.                                  *)
Chunks == { <<>>, <<"G", "a">>, <<"b", "E">> }

RECURSIVE SeqsUpTo(_, _)
SeqsUpTo(S, n) ==
    IF n = 0 THEN { <<>> }
    ELSE LET shorter == SeqsUpTo(S, n - 1)
         IN  shorter \cup { Append(s, c) : s \in shorter, c \in S }

Streams == SeqsUpTo(Chunks, MaxChunks)

RECURSIVE Flatten(_)
Flatten(stream) ==
    IF stream = <<>> THEN <<>> ELSE Head(stream) \o Flatten(Tail(stream))

File(data) == [kind |-> "file", data |-> data]
Dir(entries) == [kind |-> "dir", entries |-> entries]
NoEntries == [n \in {} |-> "new"]

--------------------------------------------------------------------------
(* Library predicates used by the code *)

\* os.path.exists
Exists(f, p) == p \in DOMAIN f

\* os.path.isfile
IsFile(f, p) == p \in DOMAIN f /\ f[p].kind = "file"

\* str.endswith
EndsWith(p, suffix) ==
    /\ Len(p) >= Len(suffix)
    /\ SubSeq(p, Len(p) - Len(suffix) + 1, Len(p)) = suffix

\* the `in` operator on strings
Contains(p, sub) ==
    \E i \in 1..(Len(p) + 1) :
        /\ i + Len(sub) - 1 <= Len(p)
        /\ SubSeq(p, i, i + Len(sub) - 1) = sub

--------------------------------------------------------------------------
(* download_file_from_gcs *)

\* the early return of an existing destination
FetchSkipsNever(f, output_path) == FALSE
FetchSkips(f, output_path) == Exists(f, output_path)

\* the status codes that end the call with a report and no result
IsErrorStatusLax(status) == status = HTTP_FORBIDDEN
IsErrorStatus(status) == status = HTTP_FORBIDDEN \/ status # HTTP_OK

ReportFor(status) == IF status = HTTP_FORBIDDEN THEN "auth" ELSE "http"

\* int(response.headers.get("content-length", 0))
ContentLengths == {"missing", "size", "garbage"}
HeaderRaises(clen) == clen = "garbage"
TotalSize(clen, stream) == IF clen = "size" THEN Len(Flatten(stream)) ELSE 0

\* the failures the environment can inject inside the try block
NoFault == [in |-> "none", at |-> 0]
Faults(stream) ==
    {NoFault, [in |-> "open", at |-> 0]}
    \cup { [in |-> "iter", at |-> k] : k \in 1..(Len(stream) + 1) }
    \cup { [in |-> "write", at |-> k] : k \in {j \in 1..Len(stream) : stream[j] # <<>>} }

\* the chunks written when the loop is left at step k (all of them without a fault)
RECURSIVE WriteLoopPastStop(_, _, _, _)
WriteLoopPastStop(stream, i, stop, data) ==
    IF i > Len(stream) \/ i > stop THEN data
    ELSE IF stream[i] # <<>>
         THEN WriteLoopPastStop(stream, i + 1, stop, data \o stream[i])
         ELSE WriteLoopPastStop(stream, i + 1, stop, data)

RECURSIVE WriteLoop(_, _, _, _)
WriteLoop(stream, i, stop, data) ==
    IF i > Len(stream) \/ i >= stop THEN data
    ELSE IF stream[i] # <<>>
         THEN WriteLoop(stream, i + 1, stop, data \o stream[i])
         ELSE WriteLoop(stream, i + 1, stop, data)

\* the except clause of the streaming block
TransferFailureRaises(f, output_path, bar) ==
    [fs |-> f, requests |-> 1, result |-> None, raised |-> "Exception",
     reported |-> "none", bar |-> bar, opened |-> Exists(f, output_path),
     stage |-> "stream"]
TransferFailure(f, output_path, bar) ==
    [fs |-> f, requests |-> 1, result |-> None, raised |-> "none",
     reported |-> "transfer", bar |-> bar, opened |-> Exists(f, output_path),
     stage |-> "stream"]

FetchOutcome(f, url, output_path, show_progress, r) ==
    IF FetchSkips(f, output_path)
    THEN [fs |-> f, requests |-> 0, result |-> output_path, raised |-> "none",
          reported |-> "none", bar |-> "none", opened |-> FALSE, stage |-> "skip"]
    ELSE IF ~r.conn
    THEN [fs |-> f, requests |-> 1, result |-> None, raised |-> "ConnectionError",
          reported |-> "none", bar |-> "none", opened |-> FALSE, stage |-> "connect"]
    ELSE IF IsErrorStatus(r.status)
    THEN [fs |-> f, requests |-> 1, result |-> None, raised |-> "none",
          reported |-> ReportFor(r.status), bar |-> "none", opened |-> FALSE,
          stage |-> "status"]
    ELSE IF HeaderRaises(r.clen)
    THEN [fs |-> f, requests |-> 1, result |-> None, raised |-> "ValueError",
          reported |-> "none", bar |-> "none", opened |-> FALSE, stage |-> "header"]
    ELSE LET total == TotalSize(r.clen, r.stream)
             bar == IF total # 0 /\ show_progress THEN "closed" ELSE "none"
             stop == IF r.fault.in \in {"iter", "write"}
                     THEN r.fault.at ELSE Len(r.stream) + 1
             g == [p \in DOMAIN f \cup {output_path} |->
                     IF p = output_path
                     THEN File(WriteLoop(r.stream, 1, stop, <<>>))
                     ELSE f[p]]
         IN  IF r.fault.in = "open"
             THEN TransferFailure(f, output_path, bar)
             ELSE IF r.fault.in \in {"iter", "write"}
             THEN TransferFailure(g, output_path, bar)
             ELSE [fs |-> g, requests |-> 1, result |-> output_path,
                   raised |-> "none", reported |-> "none", bar |-> bar,
                   opened |-> TRUE, stage |-> "done"]

--------------------------------------------------------------------------
(* decompress_to_cache *)

\* os.path.isfile(targz_path) raises TypeError on None instead of answering
PathCheckRaises(targz_path) == targz_path = None

\* the two checks that reject the archive path before anything is touched
RejectsPathLate(f, targz_path) == FALSE
RejectsPath(f, targz_path) ==
    ~IsFile(f, targz_path) \/ ~EndsWith(targz_path, TarGzSuffix)

WhyRejected(f, targz_path) ==
    IF ~IsFile(f, targz_path) THEN "not_a_file" ELSE "not_targz"

\* tempfile.mkdtemp(): a fresh directory <tempdir>/tmp<random>
RECURSIVE RandomSuffix(_)
RandomSuffix(n) == IF n = 0 THEN <<>> ELSE <<"x">> \o RandomSuffix(n - 1)

TempPath(n) == <<"/", "tmp", "/", "tmp">> \o RandomSuffix(n)

MkDTemp(f) ==
    TempPath(CHOOSE n \in 1..(MaxCalls + 1) :
                /\ ~Exists(f, TempPath(n))
                /\ \A m \in 1..(n - 1) : Exists(f, TempPath(m)))

(* tarfile.open(targz_path, "r:gz") and extractall: the members read       *)
(* before the archive ends, and how it ends: "ok" at the end-of-archive    *)
(* marker, "TarError" at data that is no gzip stream or at a damaged       *)
(* header, "EOFError" when the compressed data stops short.                *)
RECURSIVE ReadMembers(_, _)
ReadMembers(data, members) ==
    IF data = <<>> THEN [members |-> members, end |-> "EOFError"]
    ELSE IF Head(data) = "E" THEN [members |-> members, end |-> "ok"]
    ELSE IF Head(data) \in {"a", "b"}
         THEN ReadMembers(Tail(data), Append(members, Head(data)))
         ELSE [members |-> members, end |-> "TarError"]

ParseArchive(data) ==
    IF data = <<>> \/ Head(data) # "G"
    THEN [members |-> <<>>, end |-> "TarError"]
    ELSE ReadMembers(Tail(data), <<>>)

IsValidArchive(data) == ParseArchive(data).end = "ok"

Members(data) == { ParseArchive(data).members[i] :
                      i \in 1..Len(ParseArchive(data).members) }

\* entries of a directory; none when the path is no directory
Entries(f, d) ==
    IF d \in DOMAIN f /\ f[d].kind = "dir" THEN f[d].entries ELSE NoEntries

\* tar.extractall(path=cache_dir) for the first n members
ExtractAllClearing(f, cache_dir, members, n) ==
    IF n = 0 THEN f
    ELSE [p \in DOMAIN f \cup {cache_dir} |->
            IF p = cache_dir
            THEN Dir([e \in {members[i] : i \in 1..n} |-> "new"])
            ELSE f[p]]
ExtractAll(f, cache_dir, members, n) ==
    IF n = 0 THEN f
    ELSE LET old == Entries(f, cache_dir)
             extracted == {members[i] : i \in 1..n}
         IN  [p \in DOMAIN f \cup {cache_dir} |->
                IF p = cache_dir
                THEN Dir([e \in DOMAIN old \cup extracted |->
                             IF e \in extracted THEN "new" ELSE old[e]])
                ELSE f[p]]

\* shutil.rmtree
RmTree(f, d) == [p \in DOMAIN f \ {d} |-> f[p]]

\* the test that guards the clean-up in the except clause
CleansUp(cache_dir) == Contains(cache_dir, TmpMarker)

\* the exceptions the except clause catches
IsTarError(end) == end = "TarError"

ExtractOutcome(f, targz_path, cache_dir, ioFailAt) ==
    IF PathCheckRaises(targz_path)
    THEN [fs |-> f, result |-> None, raised |-> "TypeError", why |-> "none_path",
          dir |-> None, allocated |-> FALSE, end |-> "none"]
    ELSE IF RejectsPath(f, targz_path)
    THEN [fs |-> f, result |-> None, raised |-> "ValueError",
          why |-> WhyRejected(f, targz_path),
          dir |-> None, allocated |-> FALSE, end |-> "none"]
    ELSE LET allocated == cache_dir = None
             dir == IF allocated THEN MkDTemp(f) ELSE cache_dir
             f1 == IF allocated
                   THEN [p \in DOMAIN f \cup {dir} |->
                           IF p = dir THEN Dir(NoEntries) ELSE f[p]]
                   ELSE f
             data == IF IsFile(f, targz_path) THEN f[targz_path].data ELSE <<>>
             parsed == ParseArchive(data)
             ioFails == ioFailAt \in 1..Len(parsed.members)
             n == IF ioFails THEN ioFailAt - 1 ELSE Len(parsed.members)
             end == IF ioFails THEN "OSError" ELSE parsed.end
             f2 == ExtractAll(f1, dir, parsed.members, n)
         IN  IF end = "ok"
             THEN [fs |-> f2, result |-> dir, raised |-> "none", why |-> "none",
                   dir |-> dir, allocated |-> allocated, end |-> end]
             ELSE IF IsTarError(end)
             THEN IF CleansUp(dir)
                  THEN IF Exists(f2, dir)
                       THEN [fs |-> RmTree(f2, dir), result |-> None,
                             raised |-> "ValueError", why |-> "decompress",
                             dir |-> dir, allocated |-> allocated, end |-> end]
                       ELSE [fs |-> f2, result |-> None,
                             raised |-> "FileNotFoundError", why |-> "rmtree",
                             dir |-> dir, allocated |-> allocated, end |-> end]
                  ELSE [fs |-> f2, result |-> None,
                        raised |-> "ValueError", why |-> "decompress",
                        dir |-> dir, allocated |-> allocated, end |-> end]
             ELSE [fs |-> f2, result |-> None, raised |-> end, why |-> "uncaught",
                   dir |-> dir, allocated |-> allocated, end |-> end]

--------------------------------------------------------------------------
(* Construction of the embedding classes *)

Classes == {"DefaultEmbedding", "SentenceTransformersEmbedding",
            "GeneralTextEmbedding", "OpenAIEmbedding"}

\* Embedding(ABC) declares encode abstract
AbstractMethods == {"encode"}

Defines(cls) ==
    CASE cls = "DefaultEmbedding" ->
            {"download_file_from_gcs", "decompress_to_cache", "__init__"}
      [] cls = "SentenceTransformersEmbedding" -> {"__init__", "encode"}
      [] cls = "GeneralTextEmbedding" -> {"average_pool", "__init__", "encode"}
      [] cls = "OpenAIEmbedding" -> {"__init__", "encode"}

\* ABCMeta refuses to instantiate a class that leaves an abstract method open
Instantiable(cls) == AbstractMethods \subseteq Defines(cls)

\* the library a constructor imports
Requires(cls) ==
    CASE cls = "SentenceTransformersEmbedding" -> {"sentence_transformers"}
      [] cls = "GeneralTextEmbedding" -> {"transformers"}
      [] OTHER -> {}

Libraries == {"sentence_transformers", "transformers"}

FetchParams == <<"url", "output_path", "show_progress">>
ExtractParams == <<"targz_path", "cache_dir">>

(* Python's argument binding: positional arguments fill the parameters     *)
(* from the left, and a keyword that names a parameter already filled, or  *)
(* no parameter at all, is a TypeError.  A call through an instance passes *)
(* the instance as the first positional argument.                          *)
CallBinds(params, npositional, keywords) ==
    /\ npositional <= Len(params)
    /\ \A k \in keywords :
          \E i \in 1..Len(params) : params[i] = k /\ i > npositional

\* self.download_file_from_gcs(<url>, output_path=<name>)
FetchCallBinds == CallBinds(FetchParams, 2, {"output_path"})

\* self.decompress_to_cache(targz_path=filepath)
ExtractCallBinds == CallBinds(ExtractParams, 1, {"targz_path"})

FetchCall == [fn |-> "fetch", url |-> ArchiveURL, path |-> ArchiveName]
ExtractCall(path) == [fn |-> "extract", url |-> "", path |-> path]

\* the body of DefaultEmbedding.__init__
DefaultInit(f, r, ioFailAt) ==
    IF ~FetchCallBinds
    THEN [fs |-> f, requests |-> 0, raised |-> "TypeError", why |-> "binding",
          trace |-> <<>>, state |-> "Uninitialized"]
    ELSE LET fo == FetchOutcome(f, ArchiveURL, ArchiveName, TRUE, r)
         IN  IF fo.raised # "none"
             THEN [fs |-> fo.fs, requests |-> fo.requests, raised |-> fo.raised,
                   why |-> "fetch", trace |-> <<FetchCall>>,
                   state |-> "Downloading"]
             ELSE IF ~ExtractCallBinds
             THEN [fs |-> fo.fs, requests |-> fo.requests, raised |-> "TypeError",
                   why |-> "binding", trace |-> <<FetchCall>>,
                   state |-> "Downloading"]
             ELSE LET eo == ExtractOutcome(fo.fs, fo.result, None, ioFailAt)
                  IN  [fs |-> eo.fs, requests |-> fo.requests,
                       raised |-> eo.raised, why |-> eo.why,
                       trace |-> <<FetchCall, ExtractCall(fo.result)>>,
                       state |-> IF eo.raised = "none"
                                 THEN "Extracted" ELSE "Downloading"]

\* cls(): the abstract-method check, then the class's __init__
ConstructOutcome(f, cls, installed, r, ioFailAt) ==
    IF ~Instantiable(cls)
    THEN [fs |-> f, requests |-> 0, raised |-> "TypeError", why |-> "abstract",
          trace |-> <<>>, state |-> "Uninitialized"]
    ELSE IF cls = "DefaultEmbedding"
    THEN DefaultInit(f, r, ioFailAt)
    ELSE IF ~(Requires(cls) \subseteq installed)
    THEN [fs |-> f, requests |-> 0, raised |-> "ImportError", why |-> "import",
          trace |-> <<>>, state |-> "Uninitialized"]
    ELSE [fs |-> f, requests |-> 0, raised |-> "none", why |-> "none",
          trace |-> <<>>, state |-> "Constructed"]

\* whether a fetch of the archive in this environment would return nothing
FetchYieldsNothing(f, r) ==
    LET fo == FetchOutcome(f, ArchiveURL, ArchiveName, TRUE, r)
    IN  fo.raised = "none" /\ fo.result = None

--------------------------------------------------------------------------
(* The state machine *)

Absent == [kind |-> "absent"]
ValidData == <<"G", "a", "b", "E">>
TruncatedData == <<"G", "a">>
DamagedData == <<"G", "a", "X">>
OldEntries == [e \in {"old"} |-> "old"]
StaleEntries == [e \in {"a"} |-> "old"]

\* the file systems with every path p absent or one of nodes[p]
FileSystems(nodes) ==
    { [p \in {q \in DOMAIN nodes : full[q] # Absent} |-> full[p]] :
        full \in { g \in [DOMAIN nodes -> UNION {nodes[q] : q \in DOMAIN nodes}] :
                      \A q \in DOMAIN nodes : g[q] \in nodes[q] } }

ArchiveNodes(p) ==
    IF p = ArchiveName
    THEN {Absent, File(ValidData), File(TruncatedData), File(DamagedData),
          Dir(NoEntries)}
    ELSE IF p = ZipName THEN {Absent, File(ValidData)}
    ELSE IF p = PlainDir THEN {Absent, Dir(OldEntries), Dir(StaleEntries)}
    ELSE IF p = TmpNamedDir THEN {Absent, Dir(OldEntries)}
    ELSE {Absent}

NoPartial == [p \in {} |-> <<>>]

Start(systems) ==
    /\ fs \in systems
    /\ net = 0
    /\ calls = 0
    /\ last = [op |-> "none"]
    /\ partial = NoPartial

\* the whole program, from a few file systems
SomeNodes(p) ==
    IF p = ArchiveName THEN {Absent, File(ValidData), File(TruncatedData)}
    ELSE IF p = PlainDir THEN {Absent, Dir(OldEntries)}
    ELSE IF p = TmpNamedDir THEN {Dir(OldEntries)}
    ELSE {Absent}

Init == Start(FileSystems([p \in FilePaths \cup CallerDirs |-> SomeNodes(p)]))

\* the failure struck while a chunk with data was still to be written
MidStream(stream, fault) ==
    /\ fault.in \in {"iter", "write"}
    /\ \E j \in fault.at..Len(stream) : stream[j] # <<>>

\* what the server and the disk may do to one call
QuietResponse ==
    [conn |-> TRUE, status |-> HTTP_OK, clen |-> "missing", stream |-> <<>>,
     fault |-> NoFault]
Responses ==
    { [QuietResponse EXCEPT !.conn = FALSE] }
    \cup { [QuietResponse EXCEPT !.status = s] : s \in StatusCodes \ {HTTP_OK} }
    \cup { [QuietResponse EXCEPT !.clen = "garbage"] }
    \cup UNION { { [QuietResponse EXCEPT !.clen = l, !.stream = st, !.fault = ft] :
                     l \in ContentLengths \ {"garbage"}, ft \in Faults(st) } :
                 st \in Streams }

FetchDests == {ArchiveName, ZipName}

\* show_progress is looked at only when the response announces a size
ProgressChoices(r) == IF r.clen = "size" THEN BOOLEAN ELSE {TRUE}

\* what the environment opposed to the call: nothing was asked of it
\* ("exists"), the GET failed, the status or the header was bad, a failure
\* inside the streaming block ("open", "iter", "write"), or nothing ("none")
Cause(f, output_path, r) ==
    IF Exists(f, output_path) THEN "exists"
    ELSE IF ~r.conn THEN "conn"
    ELSE IF r.status # HTTP_OK THEN "status"
    ELSE IF r.clen = "garbage" THEN "header"
    ELSE r.fault.in

Fetch ==
    /\ calls < MaxCalls
    /\ \E output_path \in FetchDests :
         \E r \in IF FetchSkips(fs, output_path) THEN {QuietResponse} ELSE Responses :
         \E show_progress \in ProgressChoices(r) :
            \E o \in {FetchOutcome(fs, ArchiveURL, output_path, show_progress, r)} :
                /\ fs' = o.fs
                /\ net' = net + o.requests
                /\ last' = [op |-> "fetch", dest |-> output_path,
                            result |-> o.result, raised |-> o.raised,
                            reported |-> o.reported, bar |-> o.bar,
                            opened |-> o.opened, stage |-> o.stage,
                            requests |-> o.requests,
                            status |-> IF o.requests = 1 /\ r.conn
                                       THEN r.status ELSE 0,
                            cause |-> Cause(fs, output_path, r)]
                /\ partial' =
                     IF o.stage = "stream" /\ o.opened /\ MidStream(r.stream, r.fault)
                     THEN [p \in DOMAIN partial \cup {output_path} |->
                             IF p = output_path THEN Flatten(r.stream)
                             ELSE partial[p]]
                     ELSE partial
    /\ calls' = calls + 1

Extract ==
    /\ calls < MaxCalls
    /\ \E targz_path \in FilePaths \cup {None},
          cache_dir \in CallerDirs \cup {None}, ioFailAt \in 0..2 :
         \E o \in {ExtractOutcome(fs, targz_path, cache_dir, ioFailAt)} :
             /\ fs' = o.fs
             /\ last' = [op |-> "extract", targz |-> targz_path,
                         cache_dir |-> cache_dir, dir |-> o.dir,
                         result |-> o.result, raised |-> o.raised,
                         why |-> o.why, allocated |-> o.allocated,
                         end |-> o.end]
    /\ calls' = calls + 1
    /\ UNCHANGED <<net, partial>>

CtorResponses ==
    { [QuietResponse EXCEPT !.conn = FALSE],
      [QuietResponse EXCEPT !.status = HTTP_FORBIDDEN],
      [QuietResponse EXCEPT !.clen = "size",
                            !.stream = << <<"G", "a">>, <<"b", "E">> >>] }

ConstructStep(cls, viaInit) ==
    \E installed \in SUBSET Requires(cls), r \in CtorResponses :
       \E o \in {IF viaInit THEN DefaultInit(fs, r, 0)
                 ELSE ConstructOutcome(fs, cls, installed, r, 0)} :
           /\ fs' = o.fs
           /\ net' = net + o.requests
           /\ last' = [op |-> IF viaInit THEN "init" ELSE "construct",
                       cls |-> cls, raised |-> o.raised, why |-> o.why,
                       trace |-> o.trace, state |-> o.state,
                       nothing |-> FetchYieldsNothing(fs, r)]

\* cls()
Construct ==
    /\ calls < MaxCalls
    /\ \E cls \in Classes : ConstructStep(cls, FALSE)
    /\ calls' = calls + 1
    /\ UNCHANGED partial

\* DefaultEmbedding.__init__(obj), as a subclass that defines encode runs it
InitCall ==
    /\ calls < MaxCalls
    /\ ConstructStep("DefaultEmbedding", TRUE)
    /\ calls' = calls + 1
    /\ UNCHANGED partial

Next == Fetch \/ Extract \/ Construct \/ InitCall

Spec == Init /\ [][Next]_vars

\* the fetcher alone
FetchNodes(p) ==
    IF p = ArchiveName
    THEN {Absent, File(ValidData), File(TruncatedData), Dir(NoEntries)}
    ELSE {Absent}
InitFetch == Start(FileSystems([p \in FetchDests |-> FetchNodes(p)]))
SpecFetch == InitFetch /\ [][Fetch]_vars

\* the archive cache alone
InitExtract ==
    Start(FileSystems([p \in FilePaths \cup CallerDirs |-> ArchiveNodes(p)]))
SpecExtract == InitExtract /\ [][Extract]_vars

\* construction alone
NextConstruct == Construct \/ InitCall
SpecConstruct == InitExtract /\ [][NextConstruct]_vars

--------------------------------------------------------------------------
(* Properties *)

IsPrefix(a, b) == Len(a) <= Len(b) /\ SubSeq(b, 1, Len(a)) = a
StrictPrefix(a, b) == IsPrefix(a, b) /\ Len(a) < Len(b)

FetchStep == calls' # calls /\ last'.op = "fetch"
ExtractStep == calls' # calls /\ last'.op = "extract"
Constructed == last.op \in {"construct", "init"} /\ last.cls = "DefaultEmbedding"

(* C1: a fetch whose destination path already exists returns that path,    *)
(* raises nothing, issues no HTTP request and leaves the file system as it *)
(* was; so consecutive fetches of an existing destination all return it    *)
(* without any request.                                                    *)
C1_ExistingDestinationReturned ==
    [][ (FetchStep /\ Exists(fs, last'.dest)) =>
           /\ last'.result = last'.dest
           /\ last'.raised = "none"
           /\ last'.requests = 0
           /\ net' = net
           /\ fs' = fs ]_vars

C1_Witness ==
    /\ calls >= 2
    /\ last.op = "fetch"
    /\ last.cause = "exists"
    /\ last.result = last.dest
    /\ net = 0

(* C2: when the destination does not exist and the response status is 403  *)
(* or any other status than 200, fetch raises nothing, returns nothing and *)
(* the destination is neither created nor written.                         *)
C2_ErrorStatusWritesNothing ==
    [][ (FetchStep /\ ~Exists(fs, last'.dest)
            /\ last'.status # 0 /\ last'.status # HTTP_OK) =>
           /\ last'.raised = "none"
           /\ last'.result = None
           /\ ~Exists(fs', last'.dest)
           /\ fs' = fs ]_vars

C2_Witness ==
    /\ last.op = "fetch"
    /\ last.status = HTTP_FORBIDDEN
    /\ last.result = None
    /\ last.raised = "none"
    /\ ~Exists(fs, last.dest)

(* C3, as claimed: fetch never raises to its caller.                       *)
C3_NeverRaises == last.op = "fetch" => last.raised = "none"

(* C3, amended: fetch raises only when issuing the GET request fails or    *)
(* the content-length header is no integer; an error status and every      *)
(* exception inside the streaming block (opening the destination, reading  *)
(* the stream, writing a chunk) end with a report and no result.           *)
C3_RaisesOnlyOutsideStreaming ==
    last.op = "fetch" =>
       /\ last.raised # "none" <=> last.cause \in {"conn", "header"}
       /\ last.cause \in {"open", "iter", "write"} =>
             /\ last.result = None
             /\ last.reported = "transfer"
       /\ last.cause = "status" =>
             /\ last.result = None
             /\ last.reported \in {"auth", "http"}
       /\ last.result = None <=> last.cause \notin {"exists", "none"}

C3_Witness ==
    /\ last.op = "fetch"
    /\ last.cause = "write"
    /\ last.opened
    /\ last.result = None
    /\ last.raised = "none"

(* C4: an archive path that does not exist, is no regular file or does not *)
(* end in .tar.gz makes extract fail with InvalidInput (ValueError) and    *)
(* leaves the file system as it was: no temporary directory, and the       *)
(* caller's cache_dir neither created nor changed.                         *)
C4_InvalidInputTouchesNothing ==
    [][ (ExtractStep /\ last'.targz # None
            /\ (~IsFile(fs, last'.targz) \/ ~EndsWith(last'.targz, TarGzSuffix))) =>
           /\ last'.raised = "ValueError"
           /\ last'.why \in {"not_a_file", "not_targz"}
           /\ ~last'.allocated
           /\ fs' = fs ]_vars

C4_Witness ==
    /\ last.op = "extract"
    /\ last.targz = ZipName
    /\ IsFile(fs, ZipName)
    /\ last.cache_dir = PlainDir
    /\ ~Exists(fs, PlainDir)
    /\ last.raised = "ValueError"
    /\ last.why = "not_targz"

(* C5, as claimed: when extract allocated the temporary directory itself   *)
(* and then fails for any cause, the directory is gone when it has raised. *)
C5_AllocatedDirRemovedOnFailure ==
    (last.op = "extract" /\ last.allocated /\ last.raised # "none") =>
        ~Exists(fs, last.dir)

(* C6, as claimed: a caller-supplied cache_dir, whatever its path, still   *)
(* exists after a failed extraction.                                       *)
C6_CallerDirSurvivesFailure ==
    [][ (ExtractStep /\ last'.cache_dir # None /\ Exists(fs, last'.cache_dir)
            /\ last'.raised # "none") =>
           Exists(fs', last'.cache_dir) ]_vars

(* C7, as claimed: constructing the Default variant invokes fetch with the *)
(* fixed archive URL and file name, then extract on what fetch returned,   *)
(* and ends in Extracted when both succeed.                                *)
C7_ConstructionFetchesThenExtracts ==
    Constructed =>
       /\ Len(last.trace) >= 1
       /\ last.trace[1] = FetchCall
       /\ Len(last.trace) >= 2 => last.trace[2].fn = "extract"
       /\ last.raised = "none" => last.state = "Extracted"

(* C8, as claimed: for a valid .tar.gz archive extract succeeds, returns   *)
(* the cache directory, and the directory then holds exactly the archive's *)
(* entries.                                                                *)
ExtractedValid ==
    /\ last.op = "extract"
    /\ last.targz # None
    /\ IsFile(fs, last.targz)
    /\ EndsWith(last.targz, TarGzSuffix)
    /\ IsValidArchive(fs[last.targz].data)
    /\ last.end # "OSError"

C8_ExactlyTheArchiveEntries ==
    ExtractedValid =>
       /\ last.raised = "none"
       /\ last.result = (IF last.cache_dir = None THEN last.dir ELSE last.cache_dir)
       /\ Exists(fs, last.result)
       /\ DOMAIN Entries(fs, last.result) = Members(fs[last.targz].data)

(* C8, amended: for a valid .tar.gz archive whose extraction meets no I/O  *)
(* error, extract succeeds and returns the cache directory (the caller's,  *)
(* or a fresh temporary one); the directory then holds every archive entry *)
(* with the archive's content, and besides them exactly the entries it     *)
(* held before under other names, unchanged.                               *)
C8_ArchiveEntriesAddedToDirectory ==
    [][ (ExtractStep /\ last'.targz # None /\ IsFile(fs, last'.targz)
            /\ EndsWith(last'.targz, TarGzSuffix)
            /\ IsValidArchive(fs[last'.targz].data)
            /\ last'.end # "OSError") =>
           LET dir == last'.result
               old == Entries(fs, dir)
               new == Entries(fs', dir)
               members == Members(fs[last'.targz].data)
           IN  /\ last'.raised = "none"
               /\ dir = (IF last'.cache_dir = None THEN last'.dir
                         ELSE last'.cache_dir)
               /\ last'.cache_dir = None => (~Exists(fs, dir) /\ last'.allocated)
               /\ Exists(fs', dir) /\ fs'[dir].kind = "dir"
               /\ DOMAIN new = DOMAIN old \cup members
               /\ \A e \in members : new[e] = "new"
               /\ \A e \in DOMAIN old \ members : new[e] = old[e] ]_vars

C8_Witness ==
    /\ last.op = "extract"
    /\ last.cache_dir = PlainDir
    /\ last.result = PlainDir
    /\ last.raised = "none"
    /\ DOMAIN Entries(fs, PlainDir) = {"a", "b", "old"}
    /\ Entries(fs, PlainDir)["old"] = "old"

(* C9: once a fetch has opened the destination and failed while data was   *)
(* still to come, the truncated file stays on disk: it is a strict prefix  *)
(* of the body, no later step changes it, and every later fetch of that    *)
(* destination returns the path without any HTTP request.                  *)
C9_TruncatedFileIsKept ==
    [][ \A p \in DOMAIN partial' :
           /\ IsFile(fs', p)
           /\ StrictPrefix(fs'[p].data, partial'[p])
           /\ p \in DOMAIN partial =>
                 /\ fs'[p] = fs[p]
                 /\ partial'[p] = partial[p]
                 /\ (FetchStep /\ last'.dest = p) =>
                       /\ last'.result = p
                       /\ last'.raised = "none"
                       /\ last'.requests = 0
                       /\ net' = net ]_vars

C9_Witness ==
    /\ calls >= 3
    /\ net = 1
    /\ last.op = "fetch"
    /\ last.dest \in DOMAIN partial
    /\ last.result = last.dest
    /\ fs[last.dest].data # <<>>
    /\ StrictPrefix(fs[last.dest].data, partial[last.dest])

(* C10, as claimed: when fetch yields nothing during construction of the   *)
(* Default variant, construction fails with InvalidInput (the archive does *)
(* not exist), never reaches Extracted and allocates no cache directory.   *)
C10_MissingArchiveIsInvalidInput ==
    (Constructed /\ last.nothing) =>
       /\ last.raised = "ValueError"
       /\ last.why = "not_a_file"
       /\ last.state # "Extracted"

====
